---- MODULE Spec2Model ----
(***************************************************************************)
(* Prediction lifecycle and scoring engine of cupa-mondiala-2026.          *)
(*                                                                         *)
(* The database tables (matches, predictions, users, leaderboard           *)
(* snapshots) are the state.  Every query function of src/db/queries.ts    *)
(* is an operator from a database value to a database value (or to a       *)
(* result carrying one), and every server action of src/app/actions is an  *)
(* action that composes them in the order the code awaits them.            *)
(***************************************************************************)
EXTENDS Integers, FiniteSets, Sequences, TLC

(***************************************************************************)
(* Bounds of the model.                                                    *)
(***************************************************************************)
MaxOps == 3
MaxTime == 2
MaxLeaderboardUsers == 101

(***************************************************************************)
(* Program constants.                                                      *)
(***************************************************************************)
MaxScore == 20
MaxPointsEarned == 3
LockWindow == 1
LeaderboardLimit == 100

\* SQL NULL of a nullable integer column.
NULL == 0 - 100

Users == {"u1", "u2"}
NoUser == "anonymous"
MatchIds == {1, 2}
\* An id no row of matches has.
MissingMatch == Cardinality(MatchIds) + 1
GroupStage == "group_stage"
StageSlug ==
  (1 :> GroupStage) @@ (2 :> "round_of_32") @@ (3 :> GroupStage) @@ (4 :> GroupStage)
ScheduledAt == (1 :> 1) @@ (2 :> 2)
ConfirmationText == "DELETE ALL PREDICTIONS"

\* Inputs the callers are given.
SubmitPairs == {<<1, 0>>, <<20, 0>>, <<0 - 1, 0>>, <<0, 21>>}
ResultPairs == {<<1, 0>>, <<0, 0>>}
StatusInputs == {"live", "finished"}

VARIABLES
  matches,      \* table matches: id -> [status, homeScore, awayScore]
  predictions,  \* table predictions: a set of rows
  users,        \* table users: userId -> totalPoints
  snapshots,    \* table leaderboard_snapshots: the users with a snapshot row
  nextId,       \* the identity sequence of predictions.id
  now,          \* the wall clock, in units of the lock window
  ops,          \* the number of calls made so far
  lastOp,       \* the last completed call: its name, arguments and result
  procs         \* the calls in flight, each at one of its awaits

vars == <<matches, predictions, users, snapshots, nextId, now, ops, lastOp, procs>>

(***************************************************************************)
(* The database as one value.                                              *)
(***************************************************************************)
DB ==
  [matches |-> matches, predictions |-> predictions, users |-> users,
   snapshots |-> snapshots, nextId |-> nextId]

\* What a call gives back: the database it leaves, success or the failure kind,
\* and the rows it returns.
Ok(db) == [db |-> db, ok |-> TRUE, err |-> "none", value |-> {}]
OkWith(db, rows) == [db |-> db, ok |-> TRUE, err |-> "none", value |-> rows]
Fail(db, e) == [db |-> db, ok |-> FALSE, err |-> e, value |-> {}]
FailWith(db, e, detail) == [db |-> db, ok |-> FALSE, err |-> e, value |-> detail]

\* db.update(predictions).set(...).where(cond): f applied to the rows cond selects.
UpdateRows(rows, Cond(_), F(_)) == {IF Cond(p) THEN F(p) ELSE p : p \in rows}

IsScore(x) == x \in 0..MaxScore

\* sum(coalesce(points_earned, 0)) over a set of prediction rows.
RECURSIVE SumPoints(_)
SumPoints(rows) ==
  IF rows = {} THEN 0
  ELSE LET p == CHOOSE x \in rows : TRUE
       IN  (IF p.pointsEarned = NULL THEN 0 ELSE p.pointsEarned)
             + SumPoints(rows \ {p})

\* updates.field !== undefined
Has(updates, field) == field \in DOMAIN updates

(***************************************************************************)
(* queries.ts                                                              *)
(***************************************************************************)
\* Mutant: the flag of the fixture's predictions is flipped, not set.
LockPredictionsForMatchFlips(db, m) ==
  LET Sel(p) == p.matchId = m
      Set(p) == [p EXCEPT !.isLocked = ~@]
  IN  [db EXCEPT !.predictions = UpdateRows(db.predictions, Sel, Set)]

LockPredictionsForMatch(db, m) ==
  LET Sel(p) == p.matchId = m
      Set(p) == [p EXCEPT !.isLocked = TRUE]
  IN  [db EXCEPT !.predictions = UpdateRows(db.predictions, Sel, Set)]

RECURSIVE LockEach(_, _)
LockEach(db, todo) ==
  IF todo = {} THEN db
  ELSE LET m == CHOOSE x \in todo : TRUE
       IN  LockEach(LockPredictionsForMatch(db, m), todo \ {m})

LockUpcomingMatchPredictions(db, t) ==
  LET upcomingMatches ==
        {m \in DOMAIN db.matches :
           /\ db.matches[m].status = "scheduled"
           /\ ScheduledAt[m] <= t + LockWindow}
  IN  LockEach(db, upcomingMatches)

CalculateResult(homeScore, awayScore) ==
  IF homeScore > awayScore THEN "1"
  ELSE IF homeScore = awayScore THEN "X"
  ELSE "2"

CalculatePoints(predictedHome, predictedAway, actualHome, actualAway) ==
  IF predictedHome = actualHome /\ predictedAway = actualAway THEN 3
  ELSE IF CalculateResult(predictedHome, predictedAway)
            = CalculateResult(actualHome, actualAway) THEN 1
  ELSE 0

\* One round of the loop of calculatePointsForMatch: the points of one
\* prediction read before the loop, written to its row and added to its user.
\* Mutant: the points are multiplied by a per-stage multiplier.
PointsForTimesStageMultiplier(prediction, match) ==
  CalculatePoints(prediction.homeScore, prediction.awayScore,
                  match.homeScore, match.awayScore)
    * (IF StageSlug[prediction.matchId] = GroupStage THEN 1 ELSE 2)

PointsFor(prediction, match) ==
  CalculatePoints(prediction.homeScore, prediction.awayScore,
                  match.homeScore, match.awayScore)

SetPointsEarned(db, id, points) ==
  LET Sel(p) == p.id = id
      Set(p) == [p EXCEPT !.pointsEarned = points]
  IN  [db EXCEPT !.predictions = UpdateRows(db.predictions, Sel, Set)]

\* Mutant: the total is overwritten with the points, not incremented.
AddToTotalOverwrites(db, userId, delta) ==
  IF userId \in DOMAIN db.users
  THEN [db EXCEPT !.users[userId] = delta]
  ELSE db

AddToTotal(db, userId, delta) ==
  IF userId \in DOMAIN db.users
  THEN [db EXCEPT !.users[userId] = @ + delta]
  ELSE db

RECURSIVE ScoreEach(_, _, _)
ScoreEach(db, todo, match) ==
  IF todo = {} THEN db
  ELSE LET prediction == CHOOSE p \in todo : TRUE
           points == PointsFor(prediction, match)
       IN  ScoreEach(AddToTotal(SetPointsEarned(db, prediction.id, points),
                                prediction.userId, points),
                     todo \ {prediction}, match)

\* Mutant: the checks of lines 113-119 are left out.
CalculatePointsForMatchUnchecked(db, m) ==
  IF m \notin DOMAIN db.matches THEN Fail(db, "NotReady")
  ELSE LET matchPredictions == {p \in db.predictions : p.matchId = m}
       IN  Ok(ScoreEach(db, matchPredictions, db.matches[m]))

CalculatePointsForMatch(db, m) ==
  IF m \notin DOMAIN db.matches THEN Fail(db, "NotReady")
  ELSE IF db.matches[m].status # "finished" THEN Fail(db, "NotReady")
  ELSE IF db.matches[m].homeScore = NULL \/ db.matches[m].awayScore = NULL
       THEN Fail(db, "NotReady")
  ELSE LET matchPredictions == {p \in db.predictions : p.matchId = m}
       IN  Ok(ScoreEach(db, matchPredictions, db.matches[m]))

\* The unique index predictions_user_match_idx rejects a second row of a pair.
\* Mutant: the table has no unique index on (user_id, match_id).
InsertPredictionNoUniqueIndex(db, row) ==
  OkWith([db EXCEPT !.predictions = @ \cup {[row EXCEPT !.id = db.nextId]},
                    !.nextId = @ + 1],
         {[row EXCEPT !.id = db.nextId]})

InsertPrediction(db, row) ==
  IF \E p \in db.predictions : p.userId = row.userId /\ p.matchId = row.matchId
  THEN Fail(db, "Conflict")
  ELSE OkWith([db EXCEPT !.predictions = @ \cup {[row EXCEPT !.id = db.nextId]},
                         !.nextId = @ + 1],
              {[row EXCEPT !.id = db.nextId]})

UpdatePredictionById(db, id, homeScore, awayScore) ==
  LET Sel(p) == p.id = id
      Set(p) == [p EXCEPT !.homeScore = homeScore, !.awayScore = awayScore,
                          !.result = CalculateResult(homeScore, awayScore),
                          !.isLocked = FALSE, !.pointsEarned = NULL]
  IN  [db EXCEPT !.predictions = UpdateRows(db.predictions, Sel, Set)]

FindPredictionById(db, predictionId) == {p \in db.predictions : p.id = predictionId}

FindPrediction(db, userId, matchId) ==
  {p \in db.predictions : p.userId = userId /\ p.matchId = matchId}

\* Mutant: the write is always an insert.
UpsertWriteInsertsOnly(db, found, userId, matchId, homeScore, awayScore) ==
  InsertPrediction(db,
    [id |-> 0, userId |-> userId, matchId |-> matchId,
     homeScore |-> homeScore, awayScore |-> awayScore,
     result |-> CalculateResult(homeScore, awayScore),
     pointsEarned |-> NULL, isLocked |-> FALSE])

\* Lines 191-222: the write, decided by the row read at lines 180-185.
UpsertWrite(db, found, userId, matchId, homeScore, awayScore) ==
  IF found # {}
  THEN LET id == (CHOOSE p \in found : TRUE).id
           db1 == UpdatePredictionById(db, id, homeScore, awayScore)
       IN  OkWith(db1, FindPredictionById(db1, id))
  ELSE InsertPrediction(db,
         [id |-> 0, userId |-> userId, matchId |-> matchId,
          homeScore |-> homeScore, awayScore |-> awayScore,
          result |-> CalculateResult(homeScore, awayScore),
          pointsEarned |-> NULL, isLocked |-> FALSE])

\* Mutant: the status check of line 175 is left out.
UpsertPredictionNoStatusCheck(db, userId, matchId, homeScore, awayScore) ==
  IF matchId \notin DOMAIN db.matches THEN Fail(db, "NotFound")
  ELSE LET found == FindPrediction(db, userId, matchId)
       IN  IF found # {} /\ (CHOOSE p \in found : TRUE).isLocked
           THEN Fail(db, "Locked")
           ELSE UpsertWrite(db, found, userId, matchId, homeScore, awayScore)

\* Mutant: the existing prediction's flag is checked before the status.
UpsertPredictionLockedFirst(db, userId, matchId, homeScore, awayScore) ==
  IF matchId \notin DOMAIN db.matches THEN Fail(db, "NotFound")
  ELSE LET found == FindPrediction(db, userId, matchId)
       IN  IF found # {} /\ (CHOOSE p \in found : TRUE).isLocked
           THEN Fail(db, "Locked")
           ELSE IF db.matches[matchId].status # "scheduled"
           THEN Fail(db, "FixtureNotOpen")
           ELSE UpsertWrite(db, found, userId, matchId, homeScore, awayScore)

UpsertPrediction(db, userId, matchId, homeScore, awayScore) ==
  IF matchId \notin DOMAIN db.matches THEN Fail(db, "NotFound")
  ELSE IF db.matches[matchId].status # "scheduled" THEN Fail(db, "FixtureNotOpen")
  ELSE LET found == FindPrediction(db, userId, matchId)
       IN  IF found # {} /\ (CHOOSE p \in found : TRUE).isLocked
           THEN Fail(db, "Locked")
           ELSE UpsertWrite(db, found, userId, matchId, homeScore, awayScore)

\* Mutant: only the status is written, the scores stay as they were.
UpdateMatchResultStatusOnly(db, m, homeScore, awayScore, status) ==
  IF m \in DOMAIN db.matches
  THEN [db EXCEPT !.matches[m].status = status]
  ELSE db

UpdateMatchResult(db, m, homeScore, awayScore, status) ==
  IF m \in DOMAIN db.matches
  THEN [db EXCEPT !.matches[m] =
          [status |-> status, homeScore |-> homeScore, awayScore |-> awayScore]]
  ELSE db



\* Lines 605-613: the result code an update stores.
AdminNewResult(existingPrediction, updates) ==
  IF Has(updates, "homeScore") /\ Has(updates, "awayScore")
  THEN CalculateResult(updates.homeScore, updates.awayScore)
  ELSE IF Has(updates, "homeScore")
  THEN CalculateResult(updates.homeScore, existingPrediction.awayScore)
  ELSE IF Has(updates, "awayScore")
  THEN CalculateResult(existingPrediction.homeScore, updates.awayScore)
  ELSE existingPrediction.result

\* Lines 616-624: set({...updates, result}) on the row of that id.
AdminSetRow(db, predictionId, updates, result) ==
  LET Sel(p) == p.id = predictionId
      Set(p) ==
        [p EXCEPT
           !.homeScore = IF Has(updates, "homeScore") THEN updates.homeScore ELSE @,
           !.awayScore = IF Has(updates, "awayScore") THEN updates.awayScore ELSE @,
           !.pointsEarned =
              IF Has(updates, "pointsEarned") THEN updates.pointsEarned ELSE @,
           !.isLocked = IF Has(updates, "isLocked") THEN updates.isLocked ELSE @,
           !.result = result]
  IN  [db EXCEPT !.predictions = UpdateRows(db.predictions, Sel, Set)]

PointsChanged(existingPrediction, updates) ==
  /\ Has(updates, "pointsEarned")
  /\ updates.pointsEarned # existingPrediction.pointsEarned

\* Mutant: the new points are added without taking the old ones off.
PointsDiffIgnoresOld(oldPointsEarned, newPointsEarned) ==
  IF newPointsEarned = NULL THEN 0 ELSE newPointsEarned

PointsDiff(oldPointsEarned, newPointsEarned) ==
  LET oldPoints == IF oldPointsEarned = NULL THEN 0 ELSE oldPointsEarned
      newPoints == IF newPointsEarned = NULL THEN 0 ELSE newPointsEarned
  IN  newPoints - oldPoints

\* Lines 626-642: the user's total follows a changed pointsEarned.
AdminAdjustTotal(db, existingPrediction, updates) ==
  IF PointsChanged(existingPrediction, updates)
  THEN AddToTotal(db, existingPrediction.userId,
                  PointsDiff(existingPrediction.pointsEarned, updates.pointsEarned))
  ELSE db

AdminUpdatePrediction(db, predictionId, updates) ==
  LET found == FindPredictionById(db, predictionId)
  IN  IF found = {} THEN Fail(db, "NotFound")
      ELSE
        LET existingPrediction == CHOOSE p \in found : TRUE
            result == AdminNewResult(existingPrediction, updates)
            db1 == AdminSetRow(db, predictionId, updates, result)
            db2 == AdminAdjustTotal(db1, existingPrediction, updates)
        IN  OkWith(db2, FindPredictionById(db2, predictionId))

\* Line 662: what a deleted prediction takes from its user's total.
\* Mutant: a deleted prediction's points stay in the total.
PointsToRemoveNothing(prediction) == 0

PointsToRemove(prediction) ==
  IF prediction.pointsEarned # NULL /\ prediction.pointsEarned > 0
  THEN prediction.pointsEarned
  ELSE 0

AdminDeletePrediction(db, predictionId) ==
  LET found == FindPredictionById(db, predictionId)
  IN  IF found = {} THEN Fail(db, "NotFound")
      ELSE
        LET prediction == CHOOSE p \in found : TRUE
            db1 == IF PointsToRemove(prediction) > 0
                   THEN AddToTotal(db, prediction.userId, 0 - PointsToRemove(prediction))
                   ELSE db
        IN  OkWith([db1 EXCEPT !.predictions = {p \in @ : p.id # predictionId}],
                   {prediction})

\* Lines 688-704 and 741-749: the statistics read before anything is deleted.
ResetStats(db, clearLeaderboard, resetMatchResults) ==
  [predictionsDeleted |-> Cardinality(db.predictions),
   usersAffected |-> Cardinality({p.userId : p \in db.predictions}),
   pointsReset |-> SumPoints(db.predictions),
   matchesReset |->
     IF resetMatchResults
     THEN Cardinality({m \in DOMAIN db.matches :
                         db.matches[m].status \in {"finished", "live"}})
     ELSE 0,
   leaderboardCleared |-> clearLeaderboard]

\* Mutant: the users' totals are left as they are.
AdminDeleteAllPredictionsKeepsTotals(db, clearLeaderboard, resetMatchResults) ==
  LET db1 == [db EXCEPT !.predictions = {}]
      db2 == IF resetMatchResults
             THEN [db1 EXCEPT !.matches =
                     [m \in DOMAIN db.matches |->
                        [status |-> "scheduled", homeScore |-> NULL,
                         awayScore |-> NULL]]]
             ELSE db1
      db3 == IF clearLeaderboard THEN [db2 EXCEPT !.snapshots = {}] ELSE db2
  IN  OkWith(db3, {ResetStats(db, clearLeaderboard, resetMatchResults)})

AdminDeleteAllPredictions(db, clearLeaderboard, resetMatchResults) ==
  LET db1 == [db EXCEPT !.predictions = {},
                        !.users = [u \in DOMAIN db.users |-> 0]]
      db2 == IF resetMatchResults
             THEN [db1 EXCEPT !.matches =
                     [m \in DOMAIN db.matches |->
                        [status |-> "scheduled", homeScore |-> NULL,
                         awayScore |-> NULL]]]
             ELSE db1
      db3 == IF clearLeaderboard THEN [db2 EXCEPT !.snapshots = {}] ELSE db2
  IN  OkWith(db3, {ResetStats(db, clearLeaderboard, resetMatchResults)})

(***************************************************************************)
(* The group-stage gate: canUserPredictGroupStage and its helpers.         *)
(***************************************************************************)
GroupStageMatches(db) == {m \in DOMAIN db.matches : StageSlug[m] = GroupStage}

GetFirstGroupStageMatch(db) ==
  CHOOSE m \in GroupStageMatches(db) :
    \A o \in GroupStageMatches(db) : ScheduledAt[m] <= ScheduledAt[o]

HasGroupStageDeadlinePassed(db, t) == t >= ScheduledAt[GetFirstGroupStageMatch(db)]

GetUserGroupStagePredictionCount(db, userId) ==
  [completed |-> Cardinality({p \in db.predictions :
                                p.userId = userId /\ StageSlug[p.matchId] = GroupStage}),
   total |-> Cardinality(GroupStageMatches(db))]

CanUserPredictGroupStage(db, t, userId) ==
  [allowed |-> ~HasGroupStageDeadlinePassed(db, t),
   progress |-> GetUserGroupStagePredictionCount(db, userId)]

(***************************************************************************)
(* lib/auth.ts and lib/validations.ts                                      *)
(***************************************************************************)
\* Mutant: the check lets every caller through.
RequireAdminLetsAllThrough(isAdmin) == TRUE

RequireAdmin(isAdmin) == isAdmin

MatchResultSchema(matchId, homeScore, awayScore, status) ==
  /\ matchId > 0
  /\ IsScore(homeScore) /\ IsScore(awayScore)
  /\ status \in {"live", "finished"}

UpdatePredictionAdminSchema(predictionId, updates) ==
  /\ predictionId > 0
  /\ Has(updates, "homeScore") => IsScore(updates.homeScore)
  /\ Has(updates, "awayScore") => IsScore(updates.awayScore)
  /\ Has(updates, "pointsEarned") =>
       updates.pointsEarned = NULL \/ updates.pointsEarned \in 0..MaxPointsEarned

(***************************************************************************)
(* Server actions: actions/predictions.ts and actions/admin.ts             *)
(***************************************************************************)
\* Mutant: the gate is consulted for the fixtures of every stage.
SubmitPredictionGatesEveryStage(db, t, userId, matchId, homeScore, awayScore) ==
  IF userId = NoUser THEN Fail(db, "Unauthenticated")
  ELSE IF homeScore < 0 \/ awayScore < 0 THEN Fail(db, "InvalidInput")
  ELSE IF matchId \notin DOMAIN db.matches THEN Fail(db, "NotFound")
  ELSE IF ~CanUserPredictGroupStage(db, t, userId).allowed
       THEN FailWith(db, "EligibilityDenied",
                     {CanUserPredictGroupStage(db, t, userId).progress})
  ELSE UpsertPrediction(db, userId, matchId, homeScore, awayScore)

SubmitPrediction(db, t, userId, matchId, homeScore, awayScore) ==
  IF userId = NoUser THEN Fail(db, "Unauthenticated")
  ELSE IF homeScore < 0 \/ awayScore < 0 THEN Fail(db, "InvalidInput")
  ELSE IF matchId \notin DOMAIN db.matches THEN Fail(db, "NotFound")
  ELSE IF /\ StageSlug[matchId] = GroupStage
          /\ ~CanUserPredictGroupStage(db, t, userId).allowed
       THEN FailWith(db, "EligibilityDenied",
                     {CanUserPredictGroupStage(db, t, userId).progress})
  ELSE UpsertPrediction(db, userId, matchId, homeScore, awayScore)

\* Mutant: the fixture's predictions are not locked (line 40 is left out).
UpdateMatchResultHandlerWithoutLock(db, isAdmin, matchId, homeScore, awayScore, status) ==
  IF ~RequireAdmin(isAdmin) THEN Fail(db, "Unauthorized")
  ELSE IF ~MatchResultSchema(matchId, homeScore, awayScore, status)
       THEN Fail(db, "InvalidInput")
  ELSE LET db1 == UpdateMatchResult(db, matchId, homeScore, awayScore, status)
       IN  IF status = "finished"
           THEN CalculatePointsForMatch(db1, matchId)
           ELSE Ok(db1)

UpdateMatchResultHandler(db, isAdmin, matchId, homeScore, awayScore, status) ==
  IF ~RequireAdmin(isAdmin) THEN Fail(db, "Unauthorized")
  ELSE IF ~MatchResultSchema(matchId, homeScore, awayScore, status)
       THEN Fail(db, "InvalidInput")
  ELSE LET db1 == UpdateMatchResult(db, matchId, homeScore, awayScore, status)
           db2 == LockPredictionsForMatch(db1, matchId)
       IN  IF status = "finished"
           THEN CalculatePointsForMatch(db2, matchId)
           ELSE Ok(db2)

UpdatePredictionHandler(db, isAdmin, predictionId, updates) ==
  IF ~RequireAdmin(isAdmin) THEN Fail(db, "Unauthorized")
  ELSE IF ~UpdatePredictionAdminSchema(predictionId, updates)
       THEN Fail(db, "InvalidInput")
  ELSE AdminUpdatePrediction(db, predictionId, updates)

DeletePredictionHandler(db, isAdmin, predictionId) ==
  IF ~RequireAdmin(isAdmin) THEN Fail(db, "Unauthorized")
  ELSE AdminDeletePrediction(db, predictionId)

\* Mutant: the confirmation text is not asked for.
DeleteAllPredictionsHandlerNoConfirmation(db, isAdmin, options) ==
  IF ~RequireAdmin(isAdmin) THEN Fail(db, "Unauthorized")
  ELSE AdminDeleteAllPredictions(db,
         IF Has(options, "clearLeaderboard") THEN options.clearLeaderboard ELSE TRUE,
         IF Has(options, "resetMatchResults") THEN options.resetMatchResults ELSE FALSE)

DeleteAllPredictionsHandler(db, isAdmin, options) ==
  IF ~RequireAdmin(isAdmin) THEN Fail(db, "Unauthorized")
  ELSE IF ~Has(options, "confirmationText")
       THEN Fail(db, "ConfirmationMismatch")
  ELSE IF options.confirmationText # ConfirmationText
       THEN Fail(db, "ConfirmationMismatch")
  ELSE AdminDeleteAllPredictions(db,
         IF Has(options, "clearLeaderboard") THEN options.clearLeaderboard ELSE TRUE,
         IF Has(options, "resetMatchResults") THEN options.resetMatchResults ELSE FALSE)


(***************************************************************************)
(* The state machine: one action per server action or scheduled job, each  *)
(* running to completion.                                                  *)
(***************************************************************************)
AdminUpdates ==
  {[unchanged \in {} |-> 0],
   [homeScore |-> 20], [awayScore |-> 20], [homeScore |-> 0, awayScore |-> 1],
   [pointsEarned |-> 3], [pointsEarned |-> 0], [pointsEarned |-> NULL],
   [pointsEarned |-> 4],
   [isLocked |-> TRUE], [isLocked |-> FALSE]}

ResetOptions ==
  {[confirmationText |-> ConfirmationText],
   [confirmationText |-> ConfirmationText, resetMatchResults |-> TRUE,
    clearLeaderboard |-> TRUE],
   [confirmationText |-> ConfirmationText, clearLeaderboard |-> FALSE],
   [confirmationText |-> "delete all"],
   [resetMatchResults |-> TRUE]}

ProcIds == {"p1", "p2"}
Idle == [pc |-> "idle"]

Init ==
  /\ matches = [m \in MatchIds |->
                  [status |-> "scheduled", homeScore |-> NULL, awayScore |-> NULL]]
  /\ predictions = {}
  /\ users = [u \in Users |-> 0]
  /\ snapshots = {"u1"}
  /\ nextId = 1
  /\ now = 0
  /\ ops = 0
  /\ lastOp = [op |-> "init", args |-> <<>>, ok |-> TRUE, err |-> "none", value |-> {}]
  /\ procs = [p \in ProcIds |-> Idle]

SetDB(db) ==
  /\ matches' = db.matches
  /\ predictions' = db.predictions
  /\ users' = db.users
  /\ snapshots' = db.snapshots
  /\ nextId' = db.nextId

Commit(op, args, r) ==
  /\ ops < MaxOps
  /\ SetDB(r.db)
  /\ ops' = ops + 1
  /\ lastOp' = [op |-> op, args |-> args, ok |-> r.ok, err |-> r.err,
                value |-> r.value]
  /\ UNCHANGED <<now, procs>>

SubmitPredictionAction ==
  \E userId \in Users \cup {NoUser}, matchId \in MatchIds \cup {MissingMatch},
     pair \in SubmitPairs :
    Commit("submitPrediction",
           [userId |-> userId, matchId |-> matchId,
            homeScore |-> pair[1], awayScore |-> pair[2]],
           SubmitPrediction(DB, now, userId, matchId, pair[1], pair[2]))

UpdateMatchResultAction ==
  \E isAdmin \in BOOLEAN, matchId \in MatchIds \cup {MissingMatch},
     pair \in ResultPairs, status \in StatusInputs :
    Commit("updateMatchResult",
           [isAdmin |-> isAdmin, matchId |-> matchId, homeScore |-> pair[1],
            awayScore |-> pair[2], status |-> status],
           UpdateMatchResultHandler(DB, isAdmin, matchId, pair[1], pair[2], status))

UpdatePredictionAction ==
  \E isAdmin \in BOOLEAN, predictionId \in 1..nextId, updates \in AdminUpdates :
    Commit("updatePrediction",
           [isAdmin |-> isAdmin, predictionId |-> predictionId, updates |-> updates],
           UpdatePredictionHandler(DB, isAdmin, predictionId, updates))

DeletePredictionAction ==
  \E isAdmin \in BOOLEAN, predictionId \in 1..nextId :
    Commit("deletePrediction",
           [isAdmin |-> isAdmin, predictionId |-> predictionId],
           DeletePredictionHandler(DB, isAdmin, predictionId))

DeleteAllPredictionsAction ==
  \E isAdmin \in BOOLEAN, options \in ResetOptions :
    Commit("deleteAllPredictions",
           [isAdmin |-> isAdmin, options |-> options],
           DeleteAllPredictionsHandler(DB, isAdmin, options))

LockUpcomingAction ==
  Commit("lockUpcoming", [at |-> now], Ok(LockUpcomingMatchPredictions(DB, now)))

Tick ==
  /\ now < MaxTime
  /\ now' = now + 1
  /\ UNCHANGED <<matches, predictions, users, snapshots, nextId, ops, lastOp, procs>>

Next ==
  \/ SubmitPredictionAction
  \/ UpdateMatchResultAction
  \/ UpdatePredictionAction
  \/ DeletePredictionAction
  \/ DeleteAllPredictionsAction
  \/ LockUpcomingAction
  \/ Tick

Spec == Init /\ [][Next]_vars


(***************************************************************************)
(* Concurrent calls.  No server action opens a transaction, so a call is   *)
(* a sequence of separate statements, one per await, and the statements of *)
(* two calls interleave.  procs[p] holds the await a call is at, and what  *)
(* it has read so far.                                                     *)
(***************************************************************************)
ConcPairs == {<<1, 0>>, <<0, 20>>}
ConcUpdates == {[homeScore |-> 20], [awayScore |-> 20], [pointsEarned |-> 3]}

At(p, pc) == procs[p].pc = pc

Begin(p, op, args, pc) ==
  /\ At(p, "idle")
  /\ ops < MaxOps
  /\ ops' = ops + 1
  /\ procs' = [procs EXCEPT ![p] =
                 [pc |-> pc, op |-> op, args |-> args, found |-> {}]]
  /\ UNCHANGED <<matches, predictions, users, snapshots, nextId, now, lastOp>>

Goto(p, pc, found) ==
  /\ procs' = [procs EXCEPT ![p] = [@ EXCEPT !.pc = pc, !.found = found]]
  /\ UNCHANGED <<matches, predictions, users, snapshots, nextId, now, ops, lastOp>>

Finish(p, r) ==
  /\ SetDB(r.db)
  /\ lastOp' = [op |-> procs[p].op, args |-> procs[p].args, ok |-> r.ok,
                err |-> r.err, value |-> r.value]
  /\ procs' = [procs EXCEPT ![p] = Idle]
  /\ UNCHANGED <<now, ops>>

\* predictions.ts 13-27: the session and the score checks, before any query.
StartSubmit(p) ==
  \E userId \in Users, matchId \in MatchIds, pair \in ConcPairs :
    /\ ~(pair[1] < 0 \/ pair[2] < 0)
    /\ Begin(p, "submitPrediction",
             [userId |-> userId, matchId |-> matchId,
              homeScore |-> pair[1], awayScore |-> pair[2]],
             "submit.findMatch")

\* predictions.ts 30-39
SubmitFindMatch(p) ==
  /\ At(p, "submit.findMatch")
  /\ IF procs[p].args.matchId \notin DOMAIN matches
     THEN Finish(p, Fail(DB, "NotFound"))
     ELSE IF StageSlug[procs[p].args.matchId] = GroupStage
     THEN Goto(p, "submit.gate", {})
     ELSE Goto(p, "upsert.findMatch", {})

\* predictions.ts 42-51
SubmitGate(p) ==
  /\ At(p, "submit.gate")
  /\ IF ~CanUserPredictGroupStage(DB, now, procs[p].args.userId).allowed
     THEN Finish(p, FailWith(DB, "EligibilityDenied",
            {CanUserPredictGroupStage(DB, now, procs[p].args.userId).progress}))
     ELSE Goto(p, "upsert.findMatch", {})

\* queries.ts 167-177
UpsertFindMatch(p) ==
  /\ At(p, "upsert.findMatch")
  /\ IF procs[p].args.matchId \notin DOMAIN matches
     THEN Finish(p, Fail(DB, "NotFound"))
     ELSE IF matches[procs[p].args.matchId].status # "scheduled"
     THEN Finish(p, Fail(DB, "FixtureNotOpen"))
     ELSE Goto(p, "upsert.findExisting", {})

\* queries.ts 180-189
UpsertFindExisting(p) ==
  /\ At(p, "upsert.findExisting")
  /\ LET found == FindPrediction(DB, procs[p].args.userId, procs[p].args.matchId)
     IN  IF found # {} /\ (CHOOSE x \in found : TRUE).isLocked
         THEN Finish(p, Fail(DB, "Locked"))
         ELSE Goto(p, "upsert.write", found)

\* queries.ts 191-222
UpsertWriteStep(p) ==
  /\ At(p, "upsert.write")
  /\ Finish(p, UpsertWrite(DB, procs[p].found, procs[p].args.userId,
                           procs[p].args.matchId, procs[p].args.homeScore,
                           procs[p].args.awayScore))

\* admin.ts 73-86: the admin check and the schema, before any query.
StartAdminUpdate(p) ==
  \E predictionId \in 1..nextId, updates \in ConcUpdates :
    /\ RequireAdmin(TRUE)
    /\ UpdatePredictionAdminSchema(predictionId, updates)
    /\ Begin(p, "updatePrediction",
             [isAdmin |-> TRUE, predictionId |-> predictionId, updates |-> updates],
             "adminUpdate.find")

\* queries.ts 597-603
AdminUpdateFind(p) ==
  /\ At(p, "adminUpdate.find")
  /\ LET found == FindPredictionById(DB, procs[p].args.predictionId)
     IN  IF found = {} THEN Finish(p, Fail(DB, "NotFound"))
         ELSE Goto(p, "adminUpdate.setRow", found)

\* queries.ts 605-624
AdminUpdateSetRow(p) ==
  /\ At(p, "adminUpdate.setRow")
  /\ LET existingPrediction == CHOOSE x \in procs[p].found : TRUE
         result == AdminNewResult(existingPrediction, procs[p].args.updates)
     IN  SetDB(AdminSetRow(DB, procs[p].args.predictionId,
                           procs[p].args.updates, result))
  /\ procs' = [procs EXCEPT ![p] = [@ EXCEPT !.pc = "adminUpdate.adjustTotal"]]
  /\ UNCHANGED <<now, ops, lastOp>>

\* queries.ts 626-644
AdminUpdateAdjustTotal(p) ==
  /\ At(p, "adminUpdate.adjustTotal")
  /\ LET existingPrediction == CHOOSE x \in procs[p].found : TRUE
         db1 == AdminAdjustTotal(DB, existingPrediction, procs[p].args.updates)
     IN  Finish(p, OkWith(db1, FindPredictionById(db1, procs[p].args.predictionId)))

\* admin.ts 114: the admin check, before any query.
StartAdminDelete(p) ==
  \E predictionId \in 1..nextId :
    /\ RequireAdmin(TRUE)
    /\ Begin(p, "deletePrediction",
             [isAdmin |-> TRUE, predictionId |-> predictionId],
             "adminDelete.find")

\* queries.ts 653-659, and the test of line 662
AdminDeleteFind(p) ==
  /\ At(p, "adminDelete.find")
  /\ LET found == FindPredictionById(DB, procs[p].args.predictionId)
     IN  IF found = {} THEN Finish(p, Fail(DB, "NotFound"))
         ELSE IF PointsToRemove(CHOOSE x \in found : TRUE) > 0
         THEN Goto(p, "adminDelete.subtract", found)
         ELSE Goto(p, "adminDelete.delete", found)

\* queries.ts 663-669
AdminDeleteSubtract(p) ==
  /\ At(p, "adminDelete.subtract")
  /\ LET prediction == CHOOSE x \in procs[p].found : TRUE
     IN  SetDB(AddToTotal(DB, prediction.userId, 0 - PointsToRemove(prediction)))
  /\ procs' = [procs EXCEPT ![p] = [@ EXCEPT !.pc = "adminDelete.delete"]]
  /\ UNCHANGED <<now, ops, lastOp>>

\* queries.ts 672-675
AdminDeleteRow(p) ==
  /\ At(p, "adminDelete.delete")
  /\ Finish(p, OkWith([DB EXCEPT !.predictions =
                         {x \in @ : x.id # procs[p].args.predictionId}],
                      procs[p].found))

ConcNext ==
  \E p \in ProcIds :
    \/ StartSubmit(p)
    \/ SubmitFindMatch(p)
    \/ SubmitGate(p)
    \/ UpsertFindMatch(p)
    \/ UpsertFindExisting(p)
    \/ UpsertWriteStep(p)
    \/ StartAdminUpdate(p)
    \/ AdminUpdateFind(p)
    \/ AdminUpdateSetRow(p)
    \/ AdminUpdateAdjustTotal(p)
    \/ StartAdminDelete(p)
    \/ AdminDeleteFind(p)
    \/ AdminDeleteSubtract(p)
    \/ AdminDeleteRow(p)

ConcSpec == Init /\ [][ConcNext]_vars

(***************************************************************************)
(* Result entry against submissions and against result entry.  The user u1 *)
(* has an unlocked prediction on each fixture (two submissions at time 0   *)
(* leave this state); then submissions and administrators' result entries  *)
(* run concurrently, each statement of updateMatchResultAction and of      *)
(* calculatePointsForMatch a step of its own.                              *)
(***************************************************************************)
EntryInit ==
  \E pairs \in [MatchIds -> ResultPairs] :
    /\ matches = [m \in MatchIds |->
                    [status |-> "scheduled", homeScore |-> NULL, awayScore |-> NULL]]
    /\ predictions =
         {[id |-> m, userId |-> "u1", matchId |-> m,
           homeScore |-> pairs[m][1], awayScore |-> pairs[m][2],
           result |-> CalculateResult(pairs[m][1], pairs[m][2]),
           pointsEarned |-> NULL, isLocked |-> FALSE] : m \in MatchIds}
    /\ users = [u \in Users |-> 0]
    /\ snapshots = {}
    /\ nextId = Cardinality(MatchIds) + 1
    /\ now = 0
    /\ ops = 0
    /\ lastOp = [op |-> "init", args |-> <<>>, ok |-> TRUE, err |-> "none",
                 value |-> {}]
    /\ procs = [p \in ProcIds |-> Idle]

\* Calls made in a behaviour of EntrySpec.
MaxEntryOps == 2

\* predictions.ts 15-25, for a behaviour of EntrySpec.
EntryStartSubmit(p) ==
  /\ ops < MaxEntryOps
  /\ StartSubmit(p)

\* A statement that is not the call's last: the database changes and the
\* call moves to its next await.
Step(p, db, pc, found) ==
  /\ SetDB(db)
  /\ procs' = [procs EXCEPT ![p] = [@ EXCEPT !.pc = pc, !.found = found]]
  /\ UNCHANGED <<now, ops, lastOp>>

\* admin.ts 22-34: the admin check and the schema, before any query.
StartResultEntry(p) ==
  \E matchId \in MatchIds, pair \in ResultPairs, status \in StatusInputs :
    /\ ops < MaxEntryOps
    /\ RequireAdmin(TRUE)
    /\ MatchResultSchema(matchId, pair[1], pair[2], status)
    /\ Begin(p, "updateMatchResult",
             [isAdmin |-> TRUE, matchId |-> matchId, homeScore |-> pair[1],
              awayScore |-> pair[2], status |-> status],
             "entry.update")

\* admin.ts 37
EntryUpdate(p) ==
  /\ At(p, "entry.update")
  /\ Step(p, UpdateMatchResult(DB, procs[p].args.matchId, procs[p].args.homeScore,
                               procs[p].args.awayScore, procs[p].args.status),
          "entry.lock", {})

\* admin.ts 40-45
EntryLock(p) ==
  /\ At(p, "entry.lock")
  /\ IF procs[p].args.status = "finished"
     THEN Step(p, LockPredictionsForMatch(DB, procs[p].args.matchId),
               "score.findMatch", {})
     ELSE Finish(p, Ok(LockPredictionsForMatch(DB, procs[p].args.matchId)))

\* queries.ts 105-119
ScoreFindMatch(p) ==
  /\ At(p, "score.findMatch")
  /\ LET m == procs[p].args.matchId
     IN  IF \/ matches[m].status # "finished"
            \/ matches[m].homeScore = NULL
            \/ matches[m].awayScore = NULL
         THEN Finish(p, Fail(DB, "NotReady"))
         ELSE Goto(p, "score.findPredictions", [match |-> matches[m]])

\* queries.ts 121-124
ScoreFindPredictions(p) ==
  /\ At(p, "score.findPredictions")
  /\ Goto(p, "score.loop",
          [match |-> procs[p].found.match,
           todo |-> {x \in predictions : x.matchId = procs[p].args.matchId}])

\* queries.ts 126-141: the points of the next prediction, written to its row.
ScoreSetPoints(p) ==
  /\ At(p, "score.loop")
  /\ \E prediction \in procs[p].found.todo :
       Step(p, SetPointsEarned(DB, prediction.id,
                               PointsFor(prediction, procs[p].found.match)),
            "score.addTotal",
            [match |-> procs[p].found.match, todo |-> procs[p].found.todo,
             prediction |-> prediction])

\* queries.ts 143-150: the same points, added to the user's total.
ScoreAddTotal(p) ==
  /\ At(p, "score.addTotal")
  /\ LET prediction == procs[p].found.prediction
     IN  Step(p, AddToTotal(DB, prediction.userId,
                            PointsFor(prediction, procs[p].found.match)),
              "score.loop",
              [match |-> procs[p].found.match,
               todo |-> procs[p].found.todo \ {prediction}])

\* queries.ts 153 and admin.ts 54
ScoreDone(p) ==
  /\ At(p, "score.loop")
  /\ procs[p].found.todo = {}
  /\ Finish(p, Ok(DB))

EntryNext ==
  \E p \in ProcIds :
    \/ EntryStartSubmit(p)
    \/ SubmitFindMatch(p)
    \/ SubmitGate(p)
    \/ UpsertFindMatch(p)
    \/ UpsertFindExisting(p)
    \/ UpsertWriteStep(p)
    \/ StartResultEntry(p)
    \/ EntryUpdate(p)
    \/ EntryLock(p)
    \/ ScoreFindMatch(p)
    \/ ScoreFindPredictions(p)
    \/ ScoreSetPoints(p)
    \/ ScoreAddTotal(p)
    \/ ScoreDone(p)

EntrySpec == EntryInit /\ [][EntryNext]_vars

(***************************************************************************)
(* Scoring on its own: a fixture of either stage has just been given any   *)
(* final score in 0..20 and its one prediction, of any score in 0..20, has *)
(* been locked (the state updateMatchResultAction is in at line 44), and   *)
(* calculatePointsForMatch runs on it.                                     *)
(***************************************************************************)
PointsInit ==
  \E m \in MatchIds :
    \E actualHome \in 0..MaxScore, actualAway \in 0..MaxScore,
       predictedHome \in 0..MaxScore, predictedAway \in 0..MaxScore :
      /\ matches =
           [x \in MatchIds |->
              IF x = m
              THEN [status |-> "finished", homeScore |-> actualHome,
                    awayScore |-> actualAway]
              ELSE [status |-> "scheduled", homeScore |-> NULL, awayScore |-> NULL]]
      /\ predictions =
           {[id |-> 1, userId |-> "u1", matchId |-> m,
             homeScore |-> predictedHome, awayScore |-> predictedAway,
             result |-> CalculateResult(predictedHome, predictedAway),
             pointsEarned |-> NULL, isLocked |-> TRUE]}
      /\ users = [u \in Users |-> 0]
      /\ snapshots = {}
      /\ nextId = 2
      /\ now = 0
      /\ ops = 0
      /\ lastOp = [op |-> "init", args |-> <<>>, ok |-> TRUE, err |-> "none",
                   value |-> {}]
      /\ procs = [p \in ProcIds |-> Idle]

ScoreFixtureAction ==
  \E matchId \in MatchIds :
    /\ matches[matchId].status = "finished"
    /\ Commit("calculatePointsForMatch", [matchId |-> matchId],
              CalculatePointsForMatch(DB, matchId))

PointsNext == lastOp.op = "init" /\ ScoreFixtureAction

PointsSpec == PointsInit /\ [][PointsNext]_vars

(***************************************************************************)
(* calculatePointsForMatch called on fixture rows of every kind the table  *)
(* admits: status is one of three texts and each score column is nullable  *)
(* (schema.ts 96-98), and the fixtures are loaded from outside the         *)
(* program.  Each fixture has one prediction.                              *)
(***************************************************************************)
FixtureRows ==
  {[status |-> "scheduled", homeScore |-> NULL, awayScore |-> NULL],
   [status |-> "live", homeScore |-> NULL, awayScore |-> NULL],
   [status |-> "live", homeScore |-> 1, awayScore |-> 0],
   [status |-> "finished", homeScore |-> 1, awayScore |-> 0],
   [status |-> "finished", homeScore |-> NULL, awayScore |-> 0],
   [status |-> "finished", homeScore |-> 1, awayScore |-> NULL]}

FixtureRowsInit ==
  \E rows \in [MatchIds -> FixtureRows], pairs \in [MatchIds -> ResultPairs] :
    /\ matches = rows
    /\ predictions =
         {[id |-> m, userId |-> "u1", matchId |-> m,
           homeScore |-> pairs[m][1], awayScore |-> pairs[m][2],
           result |-> CalculateResult(pairs[m][1], pairs[m][2]),
           pointsEarned |-> NULL, isLocked |-> rows[m].status # "scheduled"]
            : m \in MatchIds}
    /\ users = [u \in Users |-> 0]
    /\ snapshots = {}
    /\ nextId = Cardinality(MatchIds) + 1
    /\ now = 0
    /\ ops = 0
    /\ lastOp = [op |-> "init", args |-> <<>>, ok |-> TRUE, err |-> "none",
                 value |-> {}]
    /\ procs = [p \in ProcIds |-> Idle]

ScoreAnyFixtureAction ==
  \E matchId \in MatchIds \cup {MissingMatch} :
    Commit("calculatePointsForMatch", [matchId |-> matchId],
           CalculatePointsForMatch(DB, matchId))

FixtureRowsSpec == FixtureRowsInit /\ [][ScoreAnyFixtureAction]_vars

(***************************************************************************)
(* Group standings (queries.ts 776-907): a read of the teams and matches   *)
(* tables.  Group A has three teams that meet in three group-stage         *)
(* fixtures and once in a knockout fixture; group B has one team.  The     *)
(* fixtures are in any state the table admits.                             *)
(***************************************************************************)
TeamsByName == <<"t1", "t2", "t3", "t4">>
GroupLetter == ("t1" :> "A") @@ ("t2" :> "A") @@ ("t3" :> "A") @@ ("t4" :> "B")
GroupLetters == {"A", "B"}
StandingsMatchIds == DOMAIN StageSlug
HomeTeamId == (1 :> "t1") @@ (2 :> "t1") @@ (3 :> "t2") @@ (4 :> "t3")
AwayTeamId == (1 :> "t2") @@ (2 :> "t3") @@ (3 :> "t3") @@ (4 :> "t1")
StandingsScores == 0..2

\* teams of the group, ordered by name
GetTeamsByGroup(groupLetter) ==
  SelectSeq(TeamsByName, LAMBDA t : GroupLetter[t] = groupLetter)

SeqToSet(seq) == {seq[i] : i \in 1..Len(seq)}

\* Lines 825-835: the finished group-stage fixtures with a team of the group.
GroupMatchesOf(db, teamIds) ==
  {m \in DOMAIN db.matches :
     /\ StageSlug[m] = GroupStage
     /\ db.matches[m].status = "finished"
     /\ (HomeTeamId[m] \in teamIds \/ AwayTeamId[m] \in teamIds)}

ZeroStats(team) ==
  [team |-> team, played |-> 0, won |-> 0, drawn |-> 0, lost |-> 0,
   goalsFor |-> 0, goalsAgainst |-> 0]

\* Lines 846-880: one round of groupMatches.forEach for one team.
AddMatch(stats, db, m) ==
  LET match == db.matches[m]
      isHome == HomeTeamId[m] = stats.team
      isAway == AwayTeamId[m] = stats.team
      for == IF isHome THEN match.homeScore ELSE match.awayScore
      against == IF isHome THEN match.awayScore ELSE match.homeScore
  IN  IF match.homeScore = NULL \/ match.awayScore = NULL THEN stats
      ELSE IF ~isHome /\ ~isAway THEN stats
      ELSE [stats EXCEPT
              !.played = @ + 1,
              !.goalsFor = @ + for,
              !.goalsAgainst = @ + against,
              !.won = IF for > against THEN @ + 1 ELSE @,
              !.drawn = IF for = against THEN @ + 1 ELSE @,
              !.lost = IF for < against THEN @ + 1 ELSE @]

RECURSIVE AddMatches(_, _, _)
AddMatches(stats, db, todo) ==
  IF todo = {} THEN stats
  ELSE LET m == CHOOSE x \in todo : TRUE
       IN  AddMatches(AddMatch(stats, db, m), db, todo \ {m})

\* Lines 837-896: the row of one team.
TeamStanding(db, team, groupMatches) ==
  LET stats == AddMatches(ZeroStats(team), db, groupMatches)
  IN  [team |-> team, played |-> stats.played, won |-> stats.won,
       drawn |-> stats.drawn, lost |-> stats.lost,
       goalsFor |-> stats.goalsFor, goalsAgainst |-> stats.goalsAgainst,
       goalDifference |-> stats.goalsFor - stats.goalsAgainst,
       points |-> stats.won * 3 + stats.drawn * 1]

\* Mutant: the comparator leaves out the goal difference.
CompareStandingsWithoutGoalDifference(a, b) ==
  IF b.points # a.points THEN b.points - a.points
  ELSE b.goalsFor - a.goalsFor

\* Lines 900-905: the comparator; negative when a comes before b.
CompareStandings(a, b) ==
  IF b.points # a.points THEN b.points - a.points
  ELSE IF b.goalDifference # a.goalDifference
  THEN b.goalDifference - a.goalDifference
  ELSE b.goalsFor - a.goalsFor

\* Array.prototype.sort is stable: a row goes in front of the first row the
\* comparator puts it strictly before.
InsertStanding(row, sorted) ==
  LET before == {i \in 1..Len(sorted) : CompareStandings(row, sorted[i]) < 0}
      at == IF before = {} THEN Len(sorted) + 1
            ELSE CHOOSE i \in before : \A j \in before : i <= j
  IN  SubSeq(sorted, 1, at - 1) \o <<row>> \o SubSeq(sorted, at, Len(sorted))

RECURSIVE SortStandings(_)
SortStandings(rows) ==
  IF rows = <<>> THEN <<>>
  ELSE InsertStanding(rows[Len(rows)], SortStandings(SubSeq(rows, 1, Len(rows) - 1)))

GetGroupStandings(db, groupLetter) ==
  LET groupTeams == GetTeamsByGroup(groupLetter)
      groupMatches == GroupMatchesOf(db, SeqToSet(groupTeams))
      standings == [i \in 1..Len(groupTeams) |->
                      TeamStanding(db, groupTeams[i], groupMatches)]
  IN  SortStandings(standings)

StandingsRows ==
  {[status |-> "scheduled", homeScore |-> NULL, awayScore |-> NULL],
   [status |-> "live", homeScore |-> NULL, awayScore |-> NULL],
   [status |-> "live", homeScore |-> 1, awayScore |-> 0],
   [status |-> "finished", homeScore |-> NULL, awayScore |-> 0]}
  \cup [status : {"finished"}, homeScore : StandingsScores,
        awayScore : StandingsScores]

StandingsInit ==
  /\ matches \in [StandingsMatchIds -> StandingsRows]
  /\ predictions = {}
  /\ users = [u \in Users |-> 0]
  /\ snapshots = {}
  /\ nextId = 1
  /\ now = 0
  /\ ops = 0
  /\ lastOp = [op |-> "init", args |-> <<>>, ok |-> TRUE, err |-> "none",
               value |-> {}]
  /\ procs = [p \in ProcIds |-> Idle]

GetGroupStandingsAction ==
  \E groupLetter \in GroupLetters :
    Commit("getGroupStandings", [groupLetter |-> groupLetter],
           OkWith(DB, GetGroupStandings(DB, groupLetter)))

StandingsSpec == StandingsInit /\ [][GetGroupStandingsAction]_vars

(***************************************************************************)
(* The leaderboard (queries.ts 327-332 and the leaderboard page): a read   *)
(* of the users table, here with 1 to MaxLeaderboardUsers users whose      *)
(* totals repeat in one of a few patterns.  ORDER BY leaves the order of   *)
(* users with equal totals open: they come in either order of their ids.   *)
(***************************************************************************)
TotalsPatterns == 0..3
TieOrders == {"ascending", "descending"}

UserRows(db) == {[userId |-> u, totalPoints |-> db.users[u]] : u \in DOMAIN db.users}

\* desc(users.totalPoints): whether row a comes in front of row b.
OrderedBefore(a, b, tieOrder) ==
  \/ a.totalPoints > b.totalPoints
  \/ /\ a.totalPoints = b.totalPoints
     /\ IF tieOrder = "ascending" THEN a.userId < b.userId ELSE a.userId > b.userId

\* The rows in that order: a row's place is one more than the number of rows
\* in front of it.
OrderUsers(rows, tieOrder) ==
  LET placed == {[row |-> r,
                  place |-> 1 + Cardinality({o \in rows : OrderedBefore(o, r, tieOrder)})]
                   : r \in rows}
  IN  [k \in 1..Cardinality(rows) |-> (CHOOSE x \in placed : x.place = k).row]

\* Mutant: the rows come in the order of the table, not of the totals.
GetLeaderboardUnordered(db, limit, tieOrder) ==
  LET n == Cardinality(DOMAIN db.users)
  IN  [k \in 1..(IF n < limit THEN n ELSE limit) |->
         [userId |-> k, totalPoints |-> db.users[k]]]

GetLeaderboard(db, limit, tieOrder) ==
  LET ordered == OrderUsers(UserRows(db), tieOrder)
  IN  SubSeq(ordered, 1, IF Len(ordered) < limit THEN Len(ordered) ELSE limit)

\* The leaderboard page: rank = index + 1 on the rows getLeaderboard gives.
LeaderboardPage(db, tieOrder) ==
  LET rows == GetLeaderboard(db, LeaderboardLimit, tieOrder)
  IN  [i \in 1..Len(rows) |->
         [userId |-> rows[i].userId, totalPoints |-> rows[i].totalPoints,
          rank |-> i]]

LeaderboardInit ==
  \E n \in 1..MaxLeaderboardUsers, k \in TotalsPatterns :
    /\ users = [u \in 1..n |-> (u * k) % (Cardinality(TotalsPatterns))]
    /\ matches = [m \in MatchIds |->
                    [status |-> "scheduled", homeScore |-> NULL, awayScore |-> NULL]]
    /\ predictions = {}
    /\ snapshots = {}
    /\ nextId = 1
    /\ now = 0
    /\ ops = 0
    /\ lastOp = [op |-> "init", args |-> <<>>, ok |-> TRUE, err |-> "none",
                 value |-> {}]
    /\ procs = [p \in ProcIds |-> Idle]

LeaderboardPageAction ==
  \E tieOrder \in TieOrders :
    Commit("leaderboardPage", [tieOrder |-> tieOrder],
           OkWith(DB, LeaderboardPage(DB, tieOrder)))

LeaderboardSpec == LeaderboardInit /\ [][LeaderboardPageAction]_vars

(***************************************************************************)
(* Properties.                                                             *)
(***************************************************************************)
RowsOf(rows, userId) == {p \in rows : p.userId = userId}
RowsOn(rows, userId, matchId) == {p \in rows : p.userId = userId /\ p.matchId = matchId}

\* The step is a completed call of the named server action.
IsCall(op) == ops' = ops + 1 /\ lastOp'.op = op

\* C1: after any sequence of completed operations, every user's totalPoints
\* equals the sum of the non-null pointsEarned of that user's predictions.
C1_TotalEqualsSumOfPoints ==
  \A u \in Users : users[u] = SumPoints(RowsOf(predictions, u))

\* The locked-state of section 4.2, for a stored prediction at time t.
LockedState(p, t) ==
  \/ p.isLocked
  \/ matches[p.matchId].status # "scheduled"
  \/ t >= ScheduledAt[p.matchId]

\* C2: a submission for a pair whose existing prediction is in locked-state
\* (flag set, fixture not scheduled, or now >= scheduledAt) fails and leaves the
\* prediction's scores and outcome as they were.
C2_LockedSubmissionFails ==
  [][\A p \in predictions :
       ( /\ IsCall("submitPrediction")
         /\ lastOp'.args.userId = p.userId
         /\ lastOp'.args.matchId = p.matchId
         /\ LockedState(p, now) )
       => /\ ~lastOp'.ok
          /\ \E q \in predictions' :
               /\ q.id = p.id
               /\ q.homeScore = p.homeScore
               /\ q.awayScore = p.awayScore
               /\ q.result = p.result]_vars

\* C6: entering the finished result of an already finished fixture again leaves
\* every user's total at what one scoring with the last result gives: the old
\* points of the fixture's predictions are replaced, not added to.
C6_RescoringReplacesPoints ==
  [][( /\ IsCall("updateMatchResult")
       /\ lastOp'.ok
       /\ lastOp'.args.status = "finished"
       /\ matches[lastOp'.args.matchId].status = "finished" )
     => \A u \in Users :
          users'[u] = users[u]
                        - SumPoints(RowsOn(predictions, u, lastOp'.args.matchId))
                        + SumPoints(RowsOn(predictions', u, lastOp'.args.matchId))]_vars

\* A submission by a signed-in user for a fixture that is live or finished.
SubmitsToStartedFixture ==
  /\ IsCall("submitPrediction")
  /\ lastOp'.args.userId \in Users
  /\ lastOp'.args.matchId \in MatchIds
  /\ matches[lastOp'.args.matchId].status \in {"live", "finished"}

C8_OutOfRangeScoreRejected ==
  ( /\ lastOp.op = "submitPrediction"
    /\ lastOp.args.userId \in Users
    /\ ~(lastOp.args.homeScore \in 0..20 /\ lastOp.args.awayScore \in 0..20) )
  => ~lastOp.ok

NullAsZero(x) == IF x = NULL THEN 0 ELSE x

\* C9: a successful administrative correction moves the owner's total by
\* exactly (new pointsEarned - old pointsEarned), null counted as 0, and moves
\* no other total; a correction that changes no field moves no total.
C9_CorrectionAppliesDelta ==
  [][(IsCall("updatePrediction") /\ lastOp'.ok)
     => LET upd == lastOp'.args.updates
            old == CHOOSE p \in predictions : p.id = lastOp'.args.predictionId
            new == IF "pointsEarned" \in DOMAIN upd
                   THEN upd.pointsEarned ELSE old.pointsEarned
        IN  /\ users' = [users EXCEPT ![old.userId] =
                           @ + NullAsZero(new) - NullAsZero(old.pointsEarned)]
            /\ predictions' = predictions => users' = users]_vars

C9_Witness ==
  /\ lastOp.op = "updatePrediction"
  /\ lastOp.ok
  /\ lastOp.args.updates = [pointsEarned |-> 3]
  /\ \E p \in lastOp.value :
       /\ matches[p.matchId].status = "finished"
       /\ PointsFor(p, matches[p.matchId]) = 1
       /\ users[p.userId] = 3

\* C10: a successful administrative deletion removes exactly the row of that
\* id, takes its pointsEarned from the owner's total when that is non-null and
\* positive, and touches no other total and no other prediction.
C10_DeletionRemovesRowAndPoints ==
  [][(IsCall("deletePrediction") /\ lastOp'.ok)
     => LET old == CHOOSE p \in predictions : p.id = lastOp'.args.predictionId
        IN  /\ predictions' = predictions \ {old}
            /\ users' = [users EXCEPT ![old.userId] =
                           @ - (IF old.pointsEarned # NULL /\ old.pointsEarned > 0
                                THEN old.pointsEarned ELSE 0)]]_vars

C10_Witness ==
  /\ lastOp.op = "deletePrediction"
  /\ lastOp.ok
  /\ \E p \in lastOp.value : p.pointsEarned = 3 /\ users[p.userId] = 0


\* The 3/1/0 scheme in the words of section 4.4.
Sign(x) == IF x > 0 THEN 1 ELSE IF x = 0 THEN 0 ELSE 0 - 1

ExpectedPoints(predictedHome, predictedAway, finalHome, finalAway) ==
  IF predictedHome = finalHome /\ predictedAway = finalAway THEN 3
  ELSE IF Sign(predictedHome - predictedAway) = Sign(finalHome - finalAway) THEN 1
  ELSE 0

C3_OneRowPerUserAndMatch ==
  \A p \in predictions, q \in predictions :
    (p.userId = q.userId /\ p.matchId = q.matchId) => p = q

\* Two submissions for one pair both read "no existing prediction", one
\* inserted, and the other's insert was refused.
C3_Witness ==
  /\ lastOp.op = "submitPrediction"
  /\ lastOp.err = "Conflict"
  /\ Cardinality(RowsOn(predictions, lastOp.args.userId, lastOp.args.matchId)) = 1

\* C4: every prediction's stored result code is the function of its own
\* stored scores, under any interleaving of submissions and admin updates.
C4_ResultMatchesScores ==
  \A p \in predictions :
    p.result = (IF p.homeScore > p.awayScore THEN "1"
                ELSE IF p.homeScore = p.awayScore THEN "X" ELSE "2")

\* The options of a bulk reset as the action reads them.
ResetRequested(options) ==
  Has(options, "resetMatchResults") /\ options.resetMatchResults
ClearRequested(options) ==
  Has(options, "clearLeaderboard") /\ options.clearLeaderboard

\* C11: after a successful bulk reset with resetMatchResults and
\* clearLeaderboard both requested no prediction exists, every user's total is
\* 0, every fixture is scheduled with null scores and no snapshot exists; when
\* resetMatchResults is not requested the fixtures are left as they were.
C11_BulkResetClearsEverything ==
  [][(IsCall("deleteAllPredictions") /\ lastOp'.ok)
     => LET options == lastOp'.args.options
        IN  /\ (ResetRequested(options) /\ ClearRequested(options))
                 => /\ predictions' = {}
                    /\ \A u \in Users : users'[u] = 0
                    /\ \A m \in MatchIds :
                         matches'[m] = [status |-> "scheduled",
                                        homeScore |-> NULL, awayScore |-> NULL]
                    /\ snapshots' = {}
            /\ ~ResetRequested(options) => matches' = matches]_vars

\* A reset with both options has just removed a scored prediction, 3 points
\* and a finished fixture's result.
C11_Witness ==
  /\ lastOp.op = "deleteAllPredictions"
  /\ lastOp.ok
  /\ ResetRequested(lastOp.args.options)
  /\ ClearRequested(lastOp.args.options)
  /\ \E stats \in lastOp.value :
       /\ stats.predictionsDeleted = 1
       /\ stats.pointsReset = 3
       /\ stats.matchesReset = 1
  /\ predictions = {}
  /\ snapshots = {}

\* The caller of a bulk reset is an administrator and gave the exact text.
ResetAuthorized(args) ==
  /\ args.isAdmin
  /\ Has(args.options, "confirmationText")
  /\ args.options.confirmationText = "DELETE ALL PREDICTIONS"

\* C12: the bulk reset proceeds only for an administrator who supplies the
\* exact confirmation text; with the text missing or wrong, or the admin check
\* failed, it returns a failure and changes no prediction, total, fixture or
\* snapshot.
C12_ResetNeedsAdminAndToken ==
  [][IsCall("deleteAllPredictions")
     => /\ lastOp'.ok <=> ResetAuthorized(lastOp'.args)
        /\ ~ResetAuthorized(lastOp'.args)
             => UNCHANGED <<matches, predictions, users, snapshots, nextId>>]_vars

\* An administrator's reset with a wrong text was refused while there were a
\* scored prediction and a snapshot to lose.
C12_Witness ==
  /\ lastOp.op = "deleteAllPredictions"
  /\ lastOp.args.isAdmin
  /\ lastOp.err = "ConfirmationMismatch"
  /\ \E p \in predictions : p.pointsEarned = 3 /\ users[p.userId] = 3
  /\ snapshots # {}

\* C13: scoring a fixture whose status is not finished, or whose home or away
\* score is null, fails with NotReady and changes no prediction's pointsEarned
\* and no user's total.
C13_UnfinishedFixtureNotScored ==
  [][( /\ IsCall("calculatePointsForMatch")
       /\ lastOp'.args.matchId \in MatchIds
       /\ \/ matches[lastOp'.args.matchId].status # "finished"
          \/ matches[lastOp'.args.matchId].homeScore = NULL
          \/ matches[lastOp'.args.matchId].awayScore = NULL )
     => /\ ~lastOp'.ok
        /\ lastOp'.err = "NotReady"
        /\ predictions' = predictions
        /\ users' = users]_vars

\* Scoring was refused for a live fixture with null scores that has a
\* prediction, after another fixture had been scored.
C13_Witness ==
  /\ lastOp.op = "calculatePointsForMatch"
  /\ lastOp.err = "NotReady"
  /\ lastOp.args.matchId \in MatchIds
  /\ matches[lastOp.args.matchId]
       = [status |-> "live", homeScore |-> NULL, awayScore |-> NULL]
  /\ \E p \in predictions :
       p.matchId = lastOp.args.matchId /\ p.pointsEarned = NULL
  /\ \E q \in predictions : q.pointsEarned = 3

StatusRank(status) ==
  IF status = "scheduled" THEN 0 ELSE IF status = "live" THEN 1 ELSE 2

\* C15: no call of updateMatchResultAction moves a fixture's status backwards
\* along scheduled, live, finished.
C15_StatusOnlyMovesForward ==
  [][IsCall("updateMatchResult")
     => \A m \in MatchIds :
          StatusRank(matches'[m].status) >= StatusRank(matches[m].status)]_vars

AdminOps ==
  {"updateMatchResult", "updatePrediction", "deletePrediction",
   "deleteAllPredictions"}

\* C16: an administrative operation (result entry, prediction correction,
\* prediction deletion, bulk reset) whose authorization check fails returns a
\* failure and changes no fixture, prediction, total or snapshot.
C16_AdminOpsNeedAuthorization ==
  [][(\E op \in AdminOps : IsCall(op) /\ ~lastOp'.args.isAdmin)
     => /\ ~lastOp'.ok
        /\ lastOp'.err = "Unauthorized"
        /\ UNCHANGED <<matches, predictions, users, snapshots, nextId>>]_vars

\* A caller who is not an administrator asked for the deletion of an existing
\* scored prediction and was refused.
C16_Witness ==
  /\ lastOp.op = "deletePrediction"
  /\ ~lastOp.args.isAdmin
  /\ lastOp.err = "Unauthorized"
  /\ \E p \in predictions :
       p.id = lastOp.args.predictionId /\ p.pointsEarned = 3

\* A submission by the owner of an existing prediction p with scores in range.
Resubmits(p) ==
  /\ IsCall("submitPrediction")
  /\ lastOp'.args.userId = p.userId
  /\ lastOp'.args.matchId = p.matchId
  /\ IsScore(lastOp'.args.homeScore)
  /\ IsScore(lastOp'.args.awayScore)

\* The call returned the row of p's id with the submitted scores and their
\* outcome, and that row is the only one of its user and fixture.
UpdatedInPlace(p) ==
  /\ lastOp'.ok
  /\ \E q \in predictions' :
       /\ lastOp'.value = {q}
       /\ q.id = p.id
       /\ q.homeScore = lastOp'.args.homeScore
       /\ q.awayScore = lastOp'.args.awayScore
       /\ q.result = (IF q.homeScore > q.awayScore THEN "1"
                      ELSE IF q.homeScore = q.awayScore THEN "X" ELSE "2")
       /\ RowsOn(predictions', p.userId, p.matchId) = {q}
  /\ \A o \in predictions : o.id # p.id => o \in predictions'

DBNext ==
  [matches |-> matches', predictions |-> predictions', users |-> users',
   snapshots |-> snapshots', nextId |-> nextId']

\* C19: the lock sweep is idempotent (a second run at once changes nothing
\* more) and changes nothing but isLocked flags, which it only ever sets.
C19_LockSweepIdempotent ==
  [][IsCall("lockUpcoming")
     => /\ LockUpcomingMatchPredictions(DBNext, now') = DBNext
        /\ UNCHANGED <<matches, users, snapshots, nextId>>
        /\ \A p \in predictions :
             \/ p \in predictions'
             \/ ~p.isLocked /\ [p EXCEPT !.isLocked = TRUE] \in predictions'
        /\ Cardinality(predictions') = Cardinality(predictions)]_vars

\* The sweep has locked the prediction of the fixture inside the window and
\* left alone the prediction of the fixture outside it.
C19_Witness ==
  /\ lastOp.op = "lockUpcoming"
  /\ \E p \in predictions, q \in predictions :
       /\ p.isLocked /\ ScheduledAt[p.matchId] <= now + LockWindow
       /\ matches[p.matchId].status = "scheduled"
       /\ ~q.isLocked /\ ScheduledAt[q.matchId] > now + LockWindow

\* The finished fixtures of the group stage, with both scores set, that a
\* team played, and its goals in one of them.
CountedFixtures(team) ==
  {m \in DOMAIN matches :
     /\ StageSlug[m] = GroupStage
     /\ matches[m].status = "finished"
     /\ matches[m].homeScore # NULL /\ matches[m].awayScore # NULL
     /\ team \in {HomeTeamId[m], AwayTeamId[m]}}

GoalsOf(team, m) ==
  IF HomeTeamId[m] = team THEN matches[m].homeScore ELSE matches[m].awayScore

GoalsAgainst(team, m) ==
  IF HomeTeamId[m] = team THEN matches[m].awayScore ELSE matches[m].homeScore

RECURSIVE SumOver(_, _, _)
SumOver(G(_, _), team, fixtures) ==
  IF fixtures = {} THEN 0
  ELSE LET m == CHOOSE x \in fixtures : TRUE
       IN  G(team, m) + SumOver(G, team, fixtures \ {m})

\* C20: the standings of a group have one row per team of the group; a row
\* counts exactly the team's finished group-stage fixtures with both scores
\* set (3 points a win, 1 a draw), so played = won + drawn + lost, points =
\* 3*won + drawn and goalDifference = goalsFor - goalsAgainst; and the list is
\* ordered by points, then goal difference, then goals for, all descending.
C20_StandingsCountAndOrder ==
  lastOp.op = "getGroupStandings"
  => LET standings == lastOp.value
         group == {t \in DOMAIN GroupLetter :
                     GroupLetter[t] = lastOp.args.groupLetter}
     IN  /\ Len(standings) = Cardinality(group)
         /\ {standings[i].team : i \in 1..Len(standings)} = group
         /\ \A i \in 1..Len(standings) :
              LET row == standings[i]
                  counted == CountedFixtures(row.team)
              IN  /\ row.played = Cardinality(counted)
                  /\ row.won = Cardinality({m \in counted :
                       GoalsOf(row.team, m) > GoalsAgainst(row.team, m)})
                  /\ row.drawn = Cardinality({m \in counted :
                       GoalsOf(row.team, m) = GoalsAgainst(row.team, m)})
                  /\ row.goalsFor = SumOver(GoalsOf, row.team, counted)
                  /\ row.goalsAgainst = SumOver(GoalsAgainst, row.team, counted)
                  /\ row.played = row.won + row.drawn + row.lost
                  /\ row.points = 3 * row.won + row.drawn
                  /\ row.goalDifference = row.goalsFor - row.goalsAgainst
         /\ \A i \in 1..Len(standings), j \in 1..Len(standings) :
              i < j =>
                \/ standings[i].points > standings[j].points
                \/ /\ standings[i].points = standings[j].points
                   /\ standings[i].goalDifference > standings[j].goalDifference
                \/ /\ standings[i].points = standings[j].points
                   /\ standings[i].goalDifference = standings[j].goalDifference
                   /\ standings[i].goalsFor >= standings[j].goalsFor

\* Two teams level on points are ordered by goal difference against the
\* order of their names and of their goals for, while the group also has a
\* live fixture and a finished knockout fixture that count for nothing.
C20_Witness ==
  /\ lastOp.op = "getGroupStandings"
  /\ lastOp.args.groupLetter = "A"
  /\ \E i \in 1..Len(lastOp.value), j \in 1..Len(lastOp.value) :
       /\ i < j
       /\ lastOp.value[i].points = lastOp.value[j].points
       /\ lastOp.value[i].goalDifference > lastOp.value[j].goalDifference
       /\ lastOp.value[i].goalsFor < lastOp.value[j].goalsFor
       /\ lastOp.value[i].team = "t3"
       /\ lastOp.value[j].team = "t1"
  /\ matches[2].status = "finished"
  /\ \E m \in DOMAIN matches : matches[m].status = "live"

\* The rows of a leaderboard are in non-increasing order of totalPoints, each
\* row shows its user's total, no user is listed twice and the rank of a row
\* is its 1-based position.
RankedInOrder(rankings) ==
  /\ \A i \in 1..Len(rankings) :
       /\ rankings[i].rank = i
       /\ rankings[i].userId \in DOMAIN users
       /\ rankings[i].totalPoints = users[rankings[i].userId]
  /\ \A i \in 1..Len(rankings), j \in 1..Len(rankings) :
       i < j => /\ rankings[i].totalPoints >= rankings[j].totalPoints
                /\ rankings[i].userId # rankings[j].userId

\* C21 as stated: the leaderboard lists all users in non-increasing order of
\* totalPoints and a user's rank is the 1-based position (ranks 1..N).
C21_LeaderboardListsAllUsers ==
  lastOp.op = "leaderboardPage"
  => /\ RankedInOrder(lastOp.value)
     /\ Len(lastOp.value) = Cardinality(DOMAIN users)

\* C21 amended: the leaderboard lists the 100 users with the highest
\* totalPoints (all users when there are at most 100) in non-increasing order
\* of totalPoints, and a user's rank is the 1-based position in that list.
C21_LeaderboardListsTopUsers ==
  lastOp.op = "leaderboardPage"
  => LET rankings == lastOp.value
         listed == {rankings[i].userId : i \in 1..Len(rankings)}
     IN  /\ RankedInOrder(rankings)
         /\ Len(rankings) =
              (IF Cardinality(DOMAIN users) < 100
               THEN Cardinality(DOMAIN users) ELSE 100)
         /\ \A u \in DOMAIN users \ listed, v \in listed : users[u] <= users[v]

\* A leaderboard of 100 rows with different totals and with ties, for a table
\* of more than 100 users.
C21_Witness ==
  /\ lastOp.op = "leaderboardPage"
  /\ Cardinality(DOMAIN users) > 100
  /\ Len(lastOp.value) = 100
  /\ lastOp.value[1].totalPoints > lastOp.value[100].totalPoints
  /\ lastOp.value[1].totalPoints = lastOp.value[2].totalPoints

\* A submission by a signed-in user, with scores that are not negative, for a
\* fixture that exists: the submissions that get as far as the gate.
ReachesGate ==
  /\ IsCall("submitPrediction")
  /\ lastOp'.args.userId \in Users
  /\ lastOp'.args.matchId \in MatchIds
  /\ lastOp'.args.homeScore >= 0
  /\ lastOp'.args.awayScore >= 0

\* The user's completed and the stage's total number of gated-stage fixtures.
ProgressOf(userId) ==
  [completed |-> Cardinality({p \in predictions :
                   p.userId = userId /\ StageSlug[p.matchId] = "group_stage"}),
   total |-> Cardinality({m \in MatchIds : StageSlug[m] = "group_stage"})]

C23_ResultEntryLocksThenScores ==
  [][( /\ IsCall("updateMatchResult")
       /\ lastOp'.ok
       /\ lastOp'.args.matchId \in MatchIds )
     => LET m == lastOp'.args.matchId
        IN  /\ \A p \in predictions :
                 \E q \in predictions' :
                   /\ q.id = p.id
                   /\ q.homeScore = p.homeScore /\ q.awayScore = p.awayScore
                   /\ p.matchId # m => q = p
                   /\ p.matchId = m =>
                        /\ q.isLocked
                        /\ q.pointsEarned =
                             IF lastOp'.args.status = "finished"
                             THEN ExpectedPoints(q.homeScore, q.awayScore,
                                    lastOp'.args.homeScore, lastOp'.args.awayScore)
                             ELSE p.pointsEarned
            /\ Cardinality(predictions') = Cardinality(predictions)
            /\ lastOp'.args.status = "live" => users' = users]_vars

\* A finished result was entered for a fixture with two predictions that were
\* unlocked: both are locked now, one has 3 points and one has 1.
C23_Witness ==
  /\ lastOp.op = "updateMatchResult"
  /\ lastOp.ok
  /\ lastOp.args.status = "finished"
  /\ \E p \in predictions, q \in predictions :
       /\ p.matchId = lastOp.args.matchId /\ q.matchId = lastOp.args.matchId
       /\ p.isLocked /\ q.isLocked
       /\ p.pointsEarned = 3 /\ q.pointsEarned = 1
       /\ users[p.userId] = 3 /\ users[q.userId] = 1

\* A submission by a signed-in user whose scores are each negative or in 0..20.
SubmitsChecked ==
  /\ IsCall("submitPrediction")
  /\ lastOp'.args.userId \in Users
  /\ lastOp'.args.homeScore <= 20
  /\ lastOp'.args.awayScore <= 20

FlagSet(userId, matchId) ==
  \E p \in predictions : p.userId = userId /\ p.matchId = matchId /\ p.isLocked

GateDenies(matchId) ==
  StageSlug[matchId] = "group_stage" /\ now >= ScheduledAt[1]

\* The first failure in the order of section 4.3: fixture exists, status is
\* scheduled, scores in 0..20, existing prediction not locked, gate.
FirstFailureAsStated(args) ==
  IF args.matchId \notin MatchIds THEN "NotFound"
  ELSE IF matches[args.matchId].status # "scheduled" THEN "FixtureNotOpen"
  ELSE IF args.homeScore < 0 \/ args.awayScore < 0 THEN "InvalidInput"
  ELSE IF FlagSet(args.userId, args.matchId) THEN "Locked"
  ELSE IF GateDenies(args.matchId) THEN "EligibilityDenied"
  ELSE "none"

\* The first failure in the order the action runs its checks: scores not
\* negative, fixture exists, gate, status is scheduled, existing prediction
\* not locked.
FirstFailureAsRun(args) ==
  IF args.homeScore < 0 \/ args.awayScore < 0 THEN "InvalidInput"
  ELSE IF args.matchId \notin MatchIds THEN "NotFound"
  ELSE IF GateDenies(args.matchId) THEN "EligibilityDenied"
  ELSE IF matches[args.matchId].status # "scheduled" THEN "FixtureNotOpen"
  ELSE IF FlagSet(args.userId, args.matchId) THEN "Locked"
  ELSE "none"

C28_MissingFixtureIsReported ==
  [][( /\ IsCall("updateMatchResult")
       /\ lastOp'.args.isAdmin
       /\ lastOp'.args.matchId \notin MatchIds )
     => ~lastOp'.ok]_vars

\* The lock sweep has just run and fixture m was inside its window.
JustSwept(m) ==
  /\ lastOp.op = "lockUpcoming"
  /\ matches[m].status = "scheduled"
  /\ ScheduledAt[m] <= lastOp.args.at + LockWindow

\* C29: once the predictions of a fixture have been locked by the sweep, every
\* prediction of that fixture in a later state has isLocked = true; no user
\* can create a new, unlocked prediction for it afterwards.  Stated for the
\* call that follows the sweep: it leaves no unlocked prediction of a fixture
\* the sweep has just locked.
C29_LockedFixtureStaysLocked ==
  [][\A m \in MatchIds :
       JustSwept(m) => \A p \in predictions' : p.matchId = m => p.isLocked]_vars

\* C30: every user's totalPoints is non-negative in every reachable state,
\* under any sequence and any interleaving of corrections and deletions.
C30_TotalsNeverNegative ==
  \A u \in Users : users[u] >= 0

Quiescent == \A p \in ProcIds : procs[p].pc = "idle"

\* C24: with submissions and result entries interleaved, once the calls have
\* returned no fixture that is live or finished holds an unlocked prediction,
\* and no finished fixture holds a prediction whose pointsEarned is null: no
\* write of a submission lands after the fixture has left scheduled.
C24_NoSubmissionLandsAfterStart ==
  Quiescent
  => \A p \in predictions :
       /\ matches[p.matchId].status # "scheduled" => p.isLocked
       /\ matches[p.matchId].status = "finished" => p.pointsEarned # NULL

\* Both fixtures have been entered as finished by the only two calls made.
BothFixturesScoredOnce ==
  /\ ops = Cardinality(MatchIds)
  /\ \A m \in MatchIds : matches[m].status = "finished"

\* A prediction's points once their increment has been applied: the scoring
\* call that wrote them is past its increment statement.
AppliedPoints(p) ==
  IF p.pointsEarned = NULL THEN 0
  ELSE IF \E c \in ProcIds :
            /\ procs[c].pc = "score.addTotal"
            /\ procs[c].found.prediction.id = p.id
       THEN 0
  ELSE p.pointsEarned

RECURSIVE SumApplied(_)
SumApplied(rows) ==
  IF rows = {} THEN 0
  ELSE LET p == CHOOSE x \in rows : TRUE
       IN  AppliedPoints(p) + SumApplied(rows \ {p})

\* C25: when two fixtures that both hold a prediction of one user are scored
\* concurrently, in every interleaving the user's total is the starting total
\* (0) plus every increment applied so far, and once both calls have returned
\* it is the sum of the 3/1/0 points of both predictions.
C25_ConcurrentScoringLosesNoIncrement ==
  BothFixturesScoredOnce
  => \A u \in Users :
       /\ users[u] = SumApplied(RowsOf(predictions, u))
       /\ Quiescent =>
            /\ users[u] = SumPoints(RowsOf(predictions, u))
            /\ \A p \in RowsOf(predictions, u) :
                 p.pointsEarned =
                   ExpectedPoints(p.homeScore, p.awayScore,
                                  matches[p.matchId].homeScore,
                                  matches[p.matchId].awayScore)

\* Two scoring calls for different fixtures are in their loops at once: one
\* has applied its 3 points, the other has written 3 points and is about to
\* add them.
C25_Witness ==
  /\ BothFixturesScoredOnce
  /\ users["u1"] = 3
  /\ \E c \in ProcIds, d \in ProcIds :
       /\ procs[c].pc = "score.addTotal"
       /\ procs[d].pc = "score.loop"
       /\ procs[c].args.matchId # procs[d].args.matchId
       /\ procs[c].found.prediction.userId = "u1"
       /\ PointsFor(procs[c].found.prediction, procs[c].found.match) = 3

\* C26: the score write and the total increment are applied together: in no
\* state has a prediction points that its user's total does not include.
C26_ScoreAndTotalTogether ==
  \A u \in Users : users[u] >= SumPoints(RowsOf(predictions, u))

====
